---- MODULE Spec2Model ----
(***************************************************************************)
(* The weather pipeline (weather/location.py, weather/run.py,              *)
(* weather/types.py), its script entry (main.py) and the forecast-request  *)
(* view of the terminal shell (user_interface/weather_screen.py), with    *)
(* the main menu (user_interface/main.py) and the diagnostics view         *)
(* (user_interface/debug_screen.py).                                       *)
(*                                                                         *)
(* The external collaborators are black boxes whose answers are drawn      *)
(* from small sets: the geocoding provider, the weather endpoint and the   *)
(* chart renderer.  The widget toolkit is taken at the contract the code   *)
(* relies on: a disabled Button posts no Button.Pressed; an Input posts    *)
(* Input.Submitted on Enter; run_worker starts the coroutine as a worker   *)
(* of the screen; popping a screen unmounts it and cancels its running     *)
(* workers; call_from_thread queues the callable for the UI loop, which    *)
(* runs it as a step of its own.                                           *)
(*                                                                         *)
(* Only the widgets of the screen on the stack are kept.  A run whose      *)
(* screen is torn down is marked orphan; a callable that runs for an       *)
(* orphan writes the widgets of the torn-down screen, which are no part of *)
(* the state any more.                                                     *)
(***************************************************************************)
EXTENDS Integers, Sequences, FiniteSets, TLC

VARIABLES
    mode,       \* "script" (main.py) or "shell" (user_interface)
    view,       \* the active view of the shell: "main", "weather" or "debug"; "none" in the script
    w,          \* the widgets of the WeatherScreen on the screen stack: <<>> when none is
    req,        \* every run of run_weather_request started so far, with its caller
    d,          \* the widgets of the DebugScreen on the screen stack: <<>> when none is
    chk         \* every run of a check of the DebugScreen started so far

vars == <<mode, view, w, req, d, chk>>

\* ---------------------------------------------------------------- bounds

MaxRequests == 2
MaxHours == 25

\* ------------------------------------------------------------- strings

\* A string is a sequence of characters; str.strip() removes the white
\* space at both ends and nothing inside.
RECURSIVE LStrip(_)
LStrip(s) ==
    IF s # <<>> /\ Head(s) = " " THEN LStrip(Tail(s)) ELSE s

RECURSIVE RStrip(_)
RStrip(s) ==
    IF s # <<>> /\ s[Len(s)] = " " THEN RStrip(SubSeq(s, 1, Len(s) - 1)) ELSE s

\* A strip that removes nothing.
Unstripped(s) ==
    s

Strip(s) ==
    RStrip(LStrip(s))

\* What the user can have typed into #location-input.
InputValues ==
    { <<>>, <<" ">>, <<" ", "N", " ", "Y", " ">> }

\* main.py line 6: address = "London, England"
ScriptAddress ==
    <<"L", "o", "n">>

\* --------------------------------------------- external collaborators

\* geolocator.geocode(query): a Location, or None when nothing matches.
\* An option is a sequence of length 0 (None) or 1.
\* The script's run draws from the whole sets, the runs of the shell, which
\* overlap, from a few answers of each kind.
Locations ==
    IF mode = "script"
    THEN { [latitude |-> 51, longitude |-> -1], [latitude |-> 40, longitude |-> -74] }
    ELSE { [latitude |-> 51, longitude |-> -1] }

ProviderAnswers ==
    { <<>> } \cup { <<l>> : l \in Locations }

\* The status line of the endpoint's response.
Statuses ==
    IF mode = "script" THEN { 200, 204, 404, 500 } ELSE { 200, 404 }

\* JSON values carry their JSON type.
Num(x) == <<"num", x>>
Str(s) == <<"str", s>>
List(xs) == <<"list", xs>>
Obj(o) == <<"obj", o>>

\* The i-th hourly entry of a payload: an ISO-8601 string for hour i and a
\* temperature.
\* A string is <<"iso", i>> when it reads as the ISO-8601 instant of hour i
\* and <<"txt", s>> otherwise.
IsoTime(i) == Str(<<"iso", i>>)
Temp(i) == Num(60 + i)

WellFormed(nTime, nTemp) ==
    Obj([ hourly |-> Obj([ temperature_2m |-> List([i \in 1..nTemp |-> Temp(i)]),
                           time |-> List([i \in 1..nTime |-> IsoTime(i)]) ]),
          hourly_units |-> Obj([ temperature_2m |-> Str(<<"txt", "F">>), time |-> Str(<<"txt", "iso8601">>) ]),
          elevation |-> Num(35),
          latitude |-> Num(51),
          longitude |-> Num(-1),
          timezone |-> Str(<<"txt", "GMT">>),
          timezone_abbreviation |-> Str(<<"txt", "GMT">>),
          utc_offset_seconds |-> Num(0),
          generationtime_ms |-> Num(1) ])

\* The object o without its member f.
Without(o, f) ==
    Obj([ k \in (DOMAIN o[2]) \ {f} |-> o[2][k] ])

\* The object o without the member f of its member parent.
WithoutIn(o, parent, f) ==
    Obj([ o[2] EXCEPT ![parent] = Without(@, f) ])

\* The payloads that lack one member of a well-formed payload, at the top
\* or inside hourly or hourly_units.
LackingOne ==
    LET whole == WellFormed(1, 1) IN
    { Without(whole, f) : f \in DOMAIN whole[2] }
        \cup { WithoutIn(whole, "hourly", f) : f \in DOMAIN whole[2].hourly[2] }
        \cup { WithoutIn(whole, "hourly_units", f) : f \in DOMAIN whole[2].hourly_units[2] }

\* The lengths of the hourly lists of a payload: none, one, and the two
\* longest.
HourCounts ==
    { 0, 1, MaxHours - 1, MaxHours }

\* The bodies the endpoint can answer with.
Payloads ==
    IF mode = "script"
    THEN { WellFormed(n, m) : n, m \in HourCounts } \cup LackingOne
    ELSE { WellFormed(1, 1), WellFormed(MaxHours, MaxHours), Without(WellFormed(1, 1), "latitude") }

\* ------------------------------------------------- weather/types.py

\* pydantic's check of one value against a field's annotation.
FloatOk(v) == v[1] = "num"
IntOk(v) == v[1] = "num"
StrOk(v) == v[1] = "str"
DatetimeOk(v) == v[1] = "str" /\ v[2][1] = "iso"
FloatListOk(v) == v[1] = "list" /\ \A i \in DOMAIN v[2] : FloatOk(v[2][i])
DatetimeListOk(v) == v[1] = "list" /\ \A i \in DOMAIN v[2] : DatetimeOk(v[2][i])

\* str -> datetime, as pydantic parses it.
ParseDatetime(v) == <<"datetime", v[2][2]>>

\* The fields of the three models, each with the check of its annotation.
FieldOk(model, f, v) ==
    CASE model = "HourlyData" /\ f = "temperature_2m" -> FloatListOk(v)
      [] model = "HourlyData" /\ f = "time" -> DatetimeListOk(v)
      [] model = "HourlyUnits" -> StrOk(v)
      [] model = "WeatherResult" /\ f \in {"hourly", "hourly_units"} -> v[1] = "obj"
      [] model = "WeatherResult" /\ f \in {"elevation", "latitude", "longitude", "generationtime_ms"} -> FloatOk(v)
      [] model = "WeatherResult" /\ f \in {"timezone", "timezone_abbreviation"} -> StrOk(v)
      [] model = "WeatherResult" /\ f = "utc_offset_seconds" -> IntOk(v)

HourlyDataFields == { "temperature_2m", "time" }
HourlyUnitsFields == { "temperature_2m", "time" }
WeatherResultFields ==
    { "hourly", "hourly_units", "elevation", "latitude", "longitude", "timezone",
      "timezone_abbreviation", "utc_offset_seconds", "generationtime_ms" }

\* A validation that reports the model that failed and not the field.
ModelErrorsUnnamed(model, fields, o, prefix) ==
    IF \E g \in fields : g \notin DOMAIN o[2] \/ ~FieldOk(model, g, o[2][g])
    THEN { prefix }
    ELSE {}

\* The errors of one model's own fields in the object o: the fields that
\* are absent and those whose value does not fit, each named by its
\* location under prefix.
ModelErrors(model, fields, o, prefix) ==
    { prefix \o <<f>> : f \in { g \in fields : g \notin DOMAIN o[2] \/ ~FieldOk(model, g, o[2][g]) } }

\* Every error pydantic lists for WeatherResult(**data).
ValidationErrors(data) ==
    ModelErrors("WeatherResult", WeatherResultFields, data, <<>>)
        \cup ( IF "hourly" \in DOMAIN data[2] /\ data[2].hourly[1] = "obj"
               THEN ModelErrors("HourlyData", HourlyDataFields, data[2].hourly, <<"hourly">>)
               ELSE {} )
        \cup ( IF "hourly_units" \in DOMAIN data[2] /\ data[2].hourly_units[1] = "obj"
               THEN ModelErrors("HourlyUnits", HourlyUnitsFields, data[2].hourly_units, <<"hourly_units">>)
               ELSE {} )

HourlyData(o) ==
    [ temperature_2m |-> [ i \in DOMAIN o[2].temperature_2m[2] |-> o[2].temperature_2m[2][i][2] ],
      time |-> [ i \in DOMAIN o[2].time[2] |-> ParseDatetime(o[2].time[2][i]) ] ]

HourlyUnits(o) ==
    [ temperature_2m |-> o[2].temperature_2m[2], time |-> o[2].time[2] ]

\* The model object built from a payload that has no error.
WeatherResult(data) ==
    [ hourly |-> HourlyData(data[2].hourly),
      hourly_units |-> HourlyUnits(data[2].hourly_units),
      elevation |-> data[2].elevation[2],
      latitude |-> data[2].latitude[2],
      longitude |-> data[2].longitude[2],
      timezone |-> data[2].timezone[2],
      timezone_abbreviation |-> data[2].timezone_abbreviation[2],
      utc_offset_seconds |-> data[2].utc_offset_seconds[2],
      generationtime_ms |-> data[2].generationtime_ms[2] ]

\* ---------------------------------------------- weather/location.py

\* A resolver that answers (0, 0) instead of raising when nothing matches.
get_longitude_and_latitude_defaulting(answer) ==
    IF answer = <<>> THEN << 0, 0 >> ELSE << answer[1].latitude, answer[1].longitude >>

\* A resolver that returns the pair as (longitude, latitude).
get_longitude_and_latitude_swapped(answer) ==
    IF answer = <<>> THEN <<>> ELSE << answer[1].longitude, answer[1].latitude >>

\* if not location: raise Exception(...); return location.latitude, location.longitude
\* The value is <<>> when the function raises.
get_longitude_and_latitude_for_address(answer) ==
    IF answer = <<>> THEN <<>> ELSE << answer[1].latitude, answer[1].longitude >>

\* --------------------------------------------------- weather/run.py

\* A status check that lets 4xx answers through.
raise_for_status_5xx_only(status) ==
    500 <= status /\ status < 600

\* response.raise_for_status(): raises HTTPError for a 4xx or 5xx status.
raise_for_status(status) ==
    400 <= status /\ status < 600

Error(kind, fields) ==
    << [ kind |-> kind, fields |-> fields ] >>

\* One run of run_weather_request(location), not yet begun, started by the
\* given kind of caller.  orphan: the screen whose worker it is has been
\* torn down.
NewRun(location, caller) ==
    [ orphan |-> FALSE, location |-> location, pc |-> "geocode", answer |-> <<>>,
      coords |-> <<>>, params |-> <<>>, status |-> 0, data |-> <<>>, result |-> <<>>,
      error |-> <<>>, log |-> <<>>, graph |-> <<>>, worker |-> caller ]

Runs == 1..Len(req)

\* line 14: the geocoding call and what it returns or raises.
Geocode(r) ==
    /\ req[r].pc = "geocode"
    /\ \E answer \in ProviderAnswers :
        LET coords == get_longitude_and_latitude_for_address(answer) IN
        req' = [ req EXCEPT ![r] =
                    [ @ EXCEPT !.answer = answer,
                               !.coords = coords,
                               !.log = Append(@, "geocode"),
                               !.pc = IF coords = <<>> THEN "raised" ELSE "fetch",
                               !.error = IF coords = <<>> THEN Error("NotFound", {}) ELSE <<>> ] ]
    /\ UNCHANGED <<mode, view, w, d, chk>>

\* A fetch that asks the endpoint again after an error status.
AfterFetchRetrying(status) ==
    IF raise_for_status(status) THEN "fetch" ELSE "validate"

\* What becomes of the run once the endpoint has answered with status.
AfterFetch(status) ==
    IF raise_for_status(status) THEN "raised" ELSE "validate"

\* lines 15-27: the GET with the coordinates, raise_for_status and json().
Fetch(r) ==
    /\ req[r].pc = "fetch"
    /\ \E status \in Statuses, body \in Payloads :
        LET next == AfterFetch(status) IN
        req' = [ req EXCEPT ![r] =
                    [ @ EXCEPT !.params = << [ latitude |-> req[r].coords[1],
                                                longitude |-> req[r].coords[2],
                                                hourly |-> "temperature_2m",
                                                models |-> "gfs_seamless",
                                                temperature_unit |-> "fahrenheit" ] >>,
                               !.status = status,
                               !.log = Append(@, "http"),
                               !.pc = next,
                               !.data = IF next = "validate" THEN <<body>> ELSE <<>>,
                               !.error = IF next = "raised" THEN Error("HttpError", {}) ELSE <<>> ] ]
    /\ UNCHANGED <<mode, view, w, d, chk>>

\* line 28: return WeatherResult(**data)
Validate(r) ==
    /\ req[r].pc = "validate"
    /\ LET errors == ValidationErrors(req[r].data[1]) IN
        req' = [ req EXCEPT ![r] =
                    [ @ EXCEPT !.log = Append(@, "validate"),
                               !.pc = IF errors = {} THEN "returned" ELSE "raised",
                               !.result = IF errors = {} THEN << WeatherResult(req[r].data[1]) >> ELSE <<>>,
                               !.error = IF errors = {} THEN <<>> ELSE Error("ValidationError", errors) ] ]
    /\ UNCHANGED <<mode, view, w, d, chk>>

\* show_graph(times, temps, location): ax.plot raises when the two
\* sequences differ in length; otherwise the renderer shows the chart or
\* fails.
ShowGraphOutcomes(times, temps) ==
    IF Len(times) # Len(temps) THEN { "raised" } ELSE { "shown", "raised" }

GraphCall(times, temps, location, outcome) ==
    [ times |-> times, temps |-> temps, location |-> location, outcome |-> outcome ]

\* ----------------------------------------------------------- main.py

\* line 7, when run_weather_request raises: nothing catches it.
ScriptTraceback ==
    /\ mode = "script"
    /\ req[1].worker = "script"
    /\ req[1].pc = "raised"
    /\ req' = [ req EXCEPT ![1].worker = "traceback" ]
    /\ UNCHANGED <<mode, view, w, d, chk>>

\* line 8: show_graph(times=result.hourly.time, temps=result.hourly.temperature_2m, location=address)
ScriptShowGraph ==
    /\ mode = "script"
    /\ req[1].worker = "script"
    /\ req[1].pc = "returned"
    /\ LET result == req[1].result[1] IN
        \E outcome \in ShowGraphOutcomes(result.hourly.time, result.hourly.temperature_2m) :
            req' = [ req EXCEPT ![1] =
                          [ @ EXCEPT !.log = Append(@, "present"),
                                     !.graph = << GraphCall(result.hourly.time,
                                                            result.hourly.temperature_2m,
                                                            req[1].location, outcome) >>,
                                     !.worker = IF outcome = "shown" THEN "exit" ELSE "traceback" ] ]
    /\ UNCHANGED <<mode, view, w, d, chk>>

\* --------------------------------- user_interface/weather_screen.py

\* line 163: times[:24], temps[:24]
HourLimit == 24

Min(a, b) == IF a < b THEN a ELSE b

\* A slice that keeps the whole sequence.
TakeAll(xs, n) == xs

\* xs[:n]
Take(xs, n) == SubSeq(xs, 1, Min(Len(xs), n))

\* What is left of xs after del xs[n:], which cuts the list itself.
AfterDel(xs, n) == SubSeq(xs, 1, Min(Len(xs), n))

\* What is left of xs after the expression xs[:n] (lines 163 and 174): a
\* slice is a new list, the list it is taken from stays whole.
AfterSlice(xs, n) == xs

\* time.strftime('%Y-%m-%d %H:%M')
Strftime(t) == <<"fmt", t[2]>>

Message(text, detail) ==
    [ text |-> text, detail |-> detail ]

\* The widgets compose() yields (lines 66-78), as they are when the screen
\* is mounted.  compose is taken to yield them: Header and Footer, which
\* weather_screen.py uses without importing, are no part of the model.
NewWidgets ==
    [ disabled |-> FALSE, text |-> "Submit",
      status |-> Message("", <<>>), color |-> "", results |-> <<>> ]

\* update_status(message, status_type), lines 191-204.
StatusColor(status_type) ==
    CASE status_type = "error" -> "red"
      [] status_type = "success" -> "green"
      [] status_type = "warning" -> "yellow"
      [] OTHER -> "blue"

update_status(ws, message, status_type) ==
    [ ws EXCEPT !.status = message, !.color = StatusColor(status_type) ]

\* MainScreen.on_button_pressed, "weather-btn": push_screen(WeatherScreen()).
PressWeather ==
    /\ mode = "shell"
    /\ view = "main"
    /\ w' = << NewWidgets >>
    /\ view' = "weather"
    /\ UNCHANGED <<mode, req, d, chk>>

is_cancelled(r) ==
    req[r].worker = "cancelled"

\* What becomes of a run when the screen that started it is torn down.
TornDown(run) ==
    IF run.worker = "running"
    THEN [ run EXCEPT !.worker = "cancelled", !.orphan = TRUE ]
    ELSE [ run EXCEPT !.orphan = TRUE ]

\* self.app.pop_screen(): the screen leaves the stack and is unmounted,
\* and the toolkit cancels the workers of the screen that still run.
pop_screen ==
    /\ view' = "main"
    /\ w' = <<>>
    /\ d' = <<>>
    /\ req' = [ r \in Runs |-> TornDown(req[r]) ]
    /\ chk' = [ c \in DOMAIN chk |-> TornDown(chk[c]) ]
    /\ UNCHANGED mode

\* on_button_pressed, "back-btn" (lines 88-89).
PressBack ==
    /\ view = "weather"
    /\ pop_screen

\* on_key, "escape" (lines 206-209).
PressEscape ==
    /\ view = "weather"
    /\ pop_screen

\* submit_weather_request, lines 96-116.
\* value is what #location-input holds.
submit_weather_request(value) ==
    LET location == Strip(value) IN
    IF location = <<>>
    THEN /\ w' = << update_status(w[1], Message("Please enter a location", <<>>), "error") >>
         /\ UNCHANGED <<mode, view, req, d, chk>>
    ELSE /\ Len(req) + Len(chk) < MaxRequests
         /\ w' = << update_status([ w[1] EXCEPT !.disabled = TRUE, !.text = "Loading..." ],
                                   Message("Fetching weather data...", <<>>), "info") >>
         /\ req' = Append(req, NewRun(location, "running"))
         /\ UNCHANGED <<mode, view, d, chk>>

\* on_button_pressed, "submit-btn" (lines 86-87).  A disabled button posts
\* no Button.Pressed.
PressSubmit ==
    /\ view = "weather"
    /\ ~w[1].disabled
    /\ \E value \in InputValues : submit_weather_request(value)

\* on_input_submitted (lines 91-94): Enter in #location-input.
PressEnter ==
    /\ view = "weather"
    /\ \E value \in InputValues : submit_weather_request(value)

\* A handler that catches the geocoding and HTTP errors only.
CaughtOnlyRequestErrors(kind) ==
    kind \in { "NotFound", "HttpError" }

\* except Exception: the three errors of the pipeline are Exceptions.
CaughtByExceptException(kind) ==
    kind \in { "NotFound", "HttpError", "ValidationError" }

\* fetch_weather_data after the await (lines 128-134): the worker, unless
\* it is cancelled, hands the result or the error to the UI loop.
fetch_weather_data(r) ==
    /\ mode = "shell"
    /\ req[r].worker = "running"
    /\ req[r].pc \in { "returned", "raised" }
    /\ ~is_cancelled(r)
    /\ req' = [ req EXCEPT ![r].worker =
                  IF req[r].pc = "returned" THEN "display"
                  ELSE IF CaughtByExceptException(req[r].error[1].kind) THEN "error"
                  ELSE "crashed" ]
    /\ UNCHANGED <<mode, view, w, d, chk>>

\* A callback that restores the button's text and leaves it disabled.
StillDisabled(ws) ==
    [ ws EXCEPT !.text = "Submit" ]

\* lines 139-141 and 181-183: the submit button is enabled again.
Reenable(ws) ==
    [ ws EXCEPT !.disabled = FALSE, !.text = "Submit" ]

\* The text display_weather_results builds, lines 144-164.
ResultsText(result, location) ==
    LET temps == result.hourly.temperature_2m
        times == result.hourly.time
        n == Min(Len(Take(times, HourLimit)), Len(Take(temps, HourLimit)))
    IN  [ location |-> location,
          current |-> IF temps # <<>> THEN << temps[1] >> ELSE <<>>,
          timezone |-> result.timezone,
          elevation |-> result.elevation,
          latitude |-> result.latitude,
          longitude |-> result.longitude,
          lines |-> [ i \in 1..n |-> [ time |-> Strftime(times[i]), temp |-> temps[i] ] ] ]

\* A callback that treats a failure of the chart as a failure of the
\* request.
DisplayedOrFailed(ws, result, location, outcome) ==
    IF outcome = "shown"
    THEN update_status(
             [ Reenable(ws) EXCEPT !.results = << ResultsText(result, location) >> ],
             Message("Weather data fetched successfully! Showing graph...", <<>>),
             "success")
    ELSE [ update_status(Reenable(ws), Message("Error: ", Error("ChartError", {})), "error")
             EXCEPT !.results = <<>> ]

\* What display_weather_results leaves in the widgets ws of its screen.
DisplayedWidgets(ws, result, location, outcome) ==
    LET shown == update_status(
                     [ Reenable(ws) EXCEPT !.results = << ResultsText(result, location) >> ],
                     Message("Weather data fetched successfully! Showing graph...", <<>>),
                     "success")
    IN  IF outcome = "shown" THEN shown
        ELSE update_status(shown, Message("Graph display error: ", Error("ChartError", {})), "warning")

\* What handle_weather_error leaves in the widgets ws of its screen.
ErrorWidgets(ws, error) ==
    [ update_status(Reenable(ws), Message("Error: ", error), "error") EXCEPT !.results = <<>> ]

\* display_weather_results, lines 136-176, run by the UI loop.  The widgets
\* it writes are those of its own screen: when that screen was torn down
\* they are no longer the ones on the stack.
display_weather_results(r) ==
    /\ req[r].worker = "display"
    /\ LET result == req[r].result[1]
           times == Take(result.hourly.time, HourLimit)
           temps == Take(result.hourly.temperature_2m, HourLimit)
       IN \E outcome \in ShowGraphOutcomes(times, temps) :
            /\ w' = IF req[r].orphan THEN w
                     ELSE << DisplayedWidgets(w[1], result, req[r].location, outcome) >>
            /\ req' = [ req EXCEPT ![r] =
                          [ @ EXCEPT !.worker = "done",
                                     !.log = Append(@, "present"),
                                     !.graph = << GraphCall(times, temps, req[r].location, outcome) >>,
                                     !.result = << [ result EXCEPT
                                         !.hourly.time = AfterSlice(@, HourLimit),
                                         !.hourly.temperature_2m = AfterSlice(@, HourLimit) ] >> ] ]
    /\ UNCHANGED <<mode, view, d, chk>>

\* handle_weather_error, lines 178-189, run by the UI loop.
handle_weather_error(r) ==
    /\ req[r].worker = "error"
    /\ w' = IF req[r].orphan THEN w ELSE << ErrorWidgets(w[1], req[r].error) >>
    /\ req' = [ req EXCEPT ![r].worker = "done" ]
    /\ UNCHANGED <<mode, view, d, chk>>

\* ----------------------------------- user_interface/debug_screen.py

\* What _run_mypy_command returns (lines 155-172): stdout, stderr and the
\* return code of "python -m mypy".
MypyResults ==
    { [ stdout |-> "Success", stderr |-> "", returncode |-> 0 ],
      [ stdout |-> "", stderr |-> "No module named mypy", returncode |-> 1 ] }

\* What _run_pydantic_check returns (lines 174-247).  The script it writes
\* has return statements at module level (lines 220 and 226), so that the
\* interpreter refuses it with a SyntaxError and return code 1 before it
\* runs a line.
PydanticResults ==
    { [ stdout |-> "", stderr |-> "SyntaxError", returncode |-> 1 ] }

\* How the await of run_in_executor (lines 127-129, 144-146) ends: with
\* the tuple of the function, or, both functions catching every Exception
\* of their own, with an exception of the executor itself.
AwaitOutcomes(results) ==
    { <<>> } \cup { <<x>> : x \in results }

\* One run of a check, its worker just started.
NewCheck(cmd) ==
    [ cmd |-> cmd, worker |-> "running", result |-> <<>>, orphan |-> FALSE ]

Checks == 1..Len(chk)

\* The widgets compose() yields (lines 63-76).
NewDebugWidgets ==
    [ mypy |-> [ disabled |-> FALSE, text |-> "MyPy Check" ],
      pydantic |-> [ disabled |-> FALSE, text |-> "Pydantic Check" ],
      status |-> Message("", <<>>), color |-> "", results |-> <<>> ]

\* A menu whose diagnostics option also works from the forecast-request
\* view.
PressDebugFromAnyView ==
    /\ mode = "shell"
    /\ view \in { "main", "weather" }
    /\ d' = << NewDebugWidgets >>
    /\ view' = "debug"
    /\ UNCHANGED <<mode, w, req, chk>>

\* MainScreen.on_button_pressed, "debug-btn": push_screen(DebugScreen());
\* on_mount (lines 78-80) sets the first status.  update_status of the
\* DebugScreen (lines 329-342) is that of the WeatherScreen.
PressDebug ==
    /\ mode = "shell"
    /\ view = "main"
    /\ d' = << update_status(NewDebugWidgets, Message("Select a command to run", <<>>), "info") >>
    /\ view' = "debug"
    /\ UNCHANGED <<mode, w, req, chk>>

\* on_button_pressed, "back-btn" (lines 90-91).
DebugPressBack ==
    /\ view = "debug"
    /\ pop_screen

\* on_key, "escape" (lines 344-347).
DebugPressEscape ==
    /\ view = "debug"
    /\ pop_screen

\* run_mypy_check, lines 93-105.
run_mypy_check ==
    /\ Len(req) + Len(chk) < MaxRequests
    /\ d' = << update_status([ d[1] EXCEPT !.mypy = [ disabled |-> TRUE, text |-> "Running..." ] ],
                              Message("Running MyPy type check...", <<>>), "info") >>
    /\ chk' = Append(chk, NewCheck("mypy"))
    /\ UNCHANGED <<mode, view, w, req>>

\* run_pydantic_check, lines 107-119.
run_pydantic_check ==
    /\ Len(req) + Len(chk) < MaxRequests
    /\ d' = << update_status([ d[1] EXCEPT !.pydantic = [ disabled |-> TRUE, text |-> "Running..." ] ],
                              Message("Running Pydantic validation check...", <<>>), "info") >>
    /\ chk' = Append(chk, NewCheck("pydantic"))
    /\ UNCHANGED <<mode, view, w, req>>

\* on_button_pressed, "mypy-btn" (lines 84-85).  A disabled button posts
\* no Button.Pressed.
PressMypy ==
    /\ view = "debug"
    /\ ~d[1].mypy.disabled
    /\ run_mypy_check

\* on_button_pressed, "pydantic-btn" (lines 86-87).
PressPydantic ==
    /\ view = "debug"
    /\ ~d[1].pydantic.disabled
    /\ run_pydantic_check

\* clear_results, lines 323-327, on "clear-btn" (lines 88-89).
clear_results ==
    /\ view = "debug"
    /\ d' = << update_status([ d[1] EXCEPT !.results = <<>> ], Message("Results cleared", <<>>), "info") >>
    /\ UNCHANGED <<mode, view, w, req, chk>>

\* The rest of a check's coroutine once its await has ended: the worker,
\* unless it is cancelled, hands the result or the error to the UI loop.
AfterAwait(c, outcome) ==
    /\ chk[c].worker = "running"
    /\ chk' = [ chk EXCEPT ![c] = [ @ EXCEPT !.result = outcome,
                                            !.worker = IF outcome = <<>> THEN "error" ELSE "display" ] ]
    /\ UNCHANGED <<mode, view, w, req, d>>

\* execute_mypy_check, lines 121-136.
execute_mypy_check(c) ==
    /\ chk[c].cmd = "mypy"
    /\ \E outcome \in AwaitOutcomes(MypyResults) : AfterAwait(c, outcome)

\* execute_pydantic_check, lines 138-153.
execute_pydantic_check(c) ==
    /\ chk[c].cmd = "pydantic"
    /\ \E outcome \in AwaitOutcomes(PydanticResults) : AfterAwait(c, outcome)

\* The text of #debug-results: its title, whether it says that no error
\* was found, and the output it quotes.
DebugText(title, clean, stdout, stderr) ==
    [ title |-> title, clean |-> clean, stdout |-> stdout, stderr |-> stderr ]

\* A callback that enables both buttons of the view.
EnableBoth(ws, cmd) ==
    [ ws EXCEPT !.mypy = [ disabled |-> FALSE, text |-> "MyPy Check" ],
                !.pydantic = [ disabled |-> FALSE, text |-> "Pydantic Check" ] ]

\* lines 253-256, 283-286 and 308-315: the button of the check is enabled
\* again.
EnableButton(ws, cmd) ==
    IF cmd = "mypy"
    THEN [ ws EXCEPT !.mypy = [ disabled |-> FALSE, text |-> "MyPy Check" ] ]
    ELSE [ ws EXCEPT !.pydantic = [ disabled |-> FALSE, text |-> "Pydantic Check" ] ]

\* What display_mypy_results leaves in the widgets ws of its screen.
MypyWidgets(ws, result) ==
    IF result.returncode = 0
    THEN [ update_status(EnableButton(ws, "mypy"),
                         Message("MyPy check completed successfully!", <<>>), "success")
             EXCEPT !.results = << DebugText("MyPy Type Check Results:", TRUE, result.stdout, "") >> ]
    ELSE [ update_status(EnableButton(ws, "mypy"),
                         Message("MyPy check found issues", <<>>), "warning")
             EXCEPT !.results = << DebugText("MyPy Type Check Results:", FALSE, result.stdout, result.stderr) >> ]

\* What display_pydantic_results leaves in the widgets ws of its screen.
PydanticWidgets(ws, result) ==
    IF result.returncode = 0
    THEN [ update_status(EnableButton(ws, "pydantic"),
                         Message("Pydantic validation completed successfully!", <<>>), "success")
             EXCEPT !.results = << DebugText("Pydantic Validation Results:", FALSE, result.stdout, "") >> ]
    ELSE [ update_status(EnableButton(ws, "pydantic"),
                         Message("Pydantic validation found issues", <<>>), "error")
             EXCEPT !.results = << DebugText("Pydantic Validation Results:", FALSE, result.stdout, result.stderr) >> ]

\* What handle_debug_error leaves in the widgets ws of its screen.
DebugErrorWidgets(ws, cmd) ==
    [ update_status(EnableButton(ws, cmd), Message(" error: ", <<cmd>>), "error")
        EXCEPT !.results = << DebugText("Error running ", FALSE, "", cmd) >> ]

\* display_mypy_results, lines 249-277, run by the UI loop.
display_mypy_results(c) ==
    /\ chk[c].cmd = "mypy"
    /\ chk[c].worker = "display"
    /\ d' = IF chk[c].orphan THEN d ELSE << MypyWidgets(d[1], chk[c].result[1]) >>
    /\ chk' = [ chk EXCEPT ![c].worker = "done" ]
    /\ UNCHANGED <<mode, view, w, req>>

\* display_pydantic_results, lines 279-303, run by the UI loop.
display_pydantic_results(c) ==
    /\ chk[c].cmd = "pydantic"
    /\ chk[c].worker = "display"
    /\ d' = IF chk[c].orphan THEN d ELSE << PydanticWidgets(d[1], chk[c].result[1]) >>
    /\ chk' = [ chk EXCEPT ![c].worker = "done" ]
    /\ UNCHANGED <<mode, view, w, req>>

\* handle_debug_error, lines 305-321, run by the UI loop.
handle_debug_error(c) ==
    /\ chk[c].worker = "error"
    /\ d' = IF chk[c].orphan THEN d ELSE << DebugErrorWidgets(d[1], chk[c].cmd) >>
    /\ chk' = [ chk EXCEPT ![c].worker = "done" ]
    /\ UNCHANGED <<mode, view, w, req>>

\* ---------------------------------------------------- specification

Init ==
    /\ mode \in { "script", "shell" }
    /\ view = IF mode = "script" THEN "none" ELSE "main"
    /\ w = <<>>
    /\ req = IF mode = "script" THEN << NewRun(ScriptAddress, "script") >> ELSE <<>>
    /\ d = <<>>
    /\ chk = <<>>

\* The script, and the shell with the main menu and the forecast-request
\* view.
Next ==
    \/ ScriptTraceback
    \/ ScriptShowGraph
    \/ PressWeather
    \/ PressBack
    \/ PressEscape
    \/ PressSubmit
    \/ PressEnter
    \/ \E r \in Runs : Geocode(r)
    \/ \E r \in Runs : Fetch(r)
    \/ \E r \in Runs : Validate(r)
    \/ \E r \in Runs : fetch_weather_data(r)
    \/ \E r \in Runs : display_weather_results(r)
    \/ \E r \in Runs : handle_weather_error(r)

Spec ==
    Init /\ [][Next]_vars

\* What one run does next, whoever started it.
RunStep(r) ==
    /\ r \in Runs
    /\ \/ Geocode(r)
       \/ Fetch(r)
       \/ Validate(r)
       \/ fetch_weather_data(r)
       \/ display_weather_results(r)
       \/ handle_weather_error(r)

\* The collaborators answer every call (they are functions that return or
\* fail), the event loop resumes a worker whose await has ended, and the UI
\* loop runs every callable queued for it.
FairSpec ==
    Spec /\ \A r \in 1..MaxRequests : WF_vars(RunStep(r))

\* What one check does next.
CheckStep(c) ==
    /\ c \in Checks
    /\ \/ execute_mypy_check(c)
       \/ execute_pydantic_check(c)
       \/ display_mypy_results(c)
       \/ display_pydantic_results(c)
       \/ handle_debug_error(c)

\* Next is the script and the shell of a user who never opens the
\* diagnostics view; AppNext is the script and the whole shell.
AppNext ==
    \/ Next
    \/ PressDebug
    \/ DebugPressBack
    \/ DebugPressEscape
    \/ PressMypy
    \/ PressPydantic
    \/ clear_results
    \/ \E c \in Checks : execute_mypy_check(c)
    \/ \E c \in Checks : execute_pydantic_check(c)
    \/ \E c \in Checks : display_mypy_results(c)
    \/ \E c \in Checks : display_pydantic_results(c)
    \/ \E c \in Checks : handle_debug_error(c)

AppSpec ==
    Init /\ [][AppNext]_vars

\* ------------------------------------------------------------ claims

\* A request of the shell is pending from the start of its worker until
\* display_weather_results or handle_weather_error has run for it.
Pending(r) ==
    req[r].worker \in { "running", "display", "error" }

Handled(r) ==
    req[r].worker = "done"

ErrorKind(r) ==
    IF req[r].error = <<>> THEN "" ELSE req[r].error[1].kind

\* C1: in the forecast-request view at most one forecast request is in
\* flight at any time: while the worker of one request has not had its
\* result or error handled, neither Submit nor Enter starts a second one.
C1_AtMostOneInFlight ==
    \A r1, r2 \in Runs :
        (r1 # r2 /\ Pending(r1) /\ ~req[r1].orphan /\ ~req[r2].orphan) => ~Pending(r2)

\* C2: in every reachable state of the forecast-request view, a pending
\* forecast request implies that the submit control is disabled.
C2_PendingImpliesDisabled ==
    \A r \in Runs :
        (Pending(r) /\ ~req[r].orphan) => w[1].disabled

\* The view on the stack has a request whose result or error is not
\* handled yet, or its submit control is disabled.
Unanswered ==
    \/ \E r \in Runs : Pending(r) /\ ~req[r].orphan
    \/ w # <<>> /\ w[1].disabled

\* C3: every forecast request started in the forecast-request view, if the
\* view is not torn down, eventually completes or fails; handling its
\* result or error enables the submit control again and shows the result
\* or the error message; the control does not stay disabled forever.
\* (Always eventually ~Unanswered is the same as Unanswered ~> ~Unanswered.)
C3_EveryRequestIsAnswered ==
    /\ []<>~Unanswered
    /\ [][ \A r \in Runs :
              (Pending(r) /\ ~req[r].orphan /\ req'[r].worker = "done") =>
                  /\ ~w'[1].disabled
                  /\ req[r].worker = "display" =>
                        w'[1].results = << ResultsText(req[r].result[1], req[r].location) >>
                  /\ req[r].worker = "error" =>
                        w'[1].status = Message("Error: ", req[r].error) ]_vars

C3_Witness ==
    \E r1, r2 \in Runs :
        /\ Handled(r1) /\ req[r1].result # <<>> /\ ~req[r1].orphan
        /\ Handled(r2) /\ req[r2].error # <<>> /\ ~req[r2].orphan
        /\ w # <<>>
        /\ ~w[1].disabled

\* C4: once the forecast-request view is torn down, neither
\* display_weather_results nor handle_weather_error runs for a request of
\* that view, so that none of its widgets is modified (after the teardown
\* the two callbacks are the only code that assigns to them).
C4_NothingAfterTeardown ==
    [][ \A r \in Runs :
           req[r].orphan => (req'[r].worker = "done" => req[r].worker = "done") ]_vars

\* C5: each of the three pipeline errors (address not found, non-success
\* HTTP response, payload validation failure) is caught in the worker: no
\* exception leaves the worker, the error goes to handle_weather_error,
\* and handling it enables the submit control and shows the error message.
C5_ErrorsCaughtInWorker ==
    /\ [](\A r \in Runs : req[r].worker # "crashed")
    /\ [][ \A r \in Runs :
              (mode = "shell" /\ req[r].pc = "raised") =>
                  /\ (req[r].worker = "running" /\ req'[r].worker # "running") =>
                        req'[r].worker \in { "error", "cancelled" }
                  /\ (req[r].worker = "error" /\ req'[r].worker # "error") =>
                        /\ req'[r].worker = "done"
                        /\ ~req[r].orphan =>
                              /\ ~w'[1].disabled
                              /\ w'[1].status = Message("Error: ", req[r].error)
                              /\ w'[1].color = "red" ]_vars

C5_Witness ==
    \E r1, r2 \in Runs :
        /\ Handled(r1) /\ ErrorKind(r1) = "ValidationError"
        /\ Handled(r2) /\ ErrorKind(r2) = "HttpError"
        /\ ~req[r1].orphan /\ ~req[r2].orphan
        /\ w # <<>>
        /\ ~w[1].disabled
        /\ w[1].status.text = "Error: "

C7_ResolverReturnsProviderPair ==
    \A r \in Runs :
        req[r].log # <<>> =>
            IF req[r].answer # <<>>
            THEN /\ req[r].coords = << req[r].answer[1].latitude, req[r].answer[1].longitude >>
                 /\ ErrorKind(r) # "NotFound"
            ELSE /\ req[r].coords = <<>>
                 /\ req[r].pc = "raised"
                 /\ ErrorKind(r) = "NotFound"

C7_Witness ==
    \E r1, r2 \in Runs :
        /\ req[r1].answer # <<>> /\ req[r1].coords = << 51, -1 >>
        /\ req[r2].log # <<>> /\ req[r2].answer = <<>> /\ req[r2].pc = "raised"

Stages ==
    << "geocode", "http", "validate", "present" >>

\* C8: in every run the stages happen in the order geocode, HTTP fetch,
\* validate, present, each only after every earlier one succeeded: no HTTP
\* request after a failed geocoding, and the presenter is called only with
\* a result that passed validation, in the script and in the shell.
C8_StagesInOrder ==
    \A r \in Runs :
        LET l == req[r].log IN
        /\ Len(l) <= Len(Stages)
        /\ l = SubSeq(Stages, 1, Len(l))
        /\ Len(l) >= 2 => req[r].answer # <<>>
        /\ Len(l) >= 3 => req[r].status \in 200..299
        /\ Len(l) >= 4 =>
              /\ req[r].result # <<>>
              /\ ValidationErrors(req[r].data[1]) = {}
              /\ req[r].result[1] = WeatherResult(req[r].data[1])
              /\ req[r].graph # <<>>
              /\ req[r].graph[1].times =
                    IF mode = "script" THEN req[r].result[1].hourly.time
                    ELSE Take(req[r].result[1].hourly.time, HourLimit)
              /\ req[r].graph[1].temps =
                    IF mode = "script" THEN req[r].result[1].hourly.temperature_2m
                    ELSE Take(req[r].result[1].hourly.temperature_2m, HourLimit)
        /\ Len(l) < 4 => req[r].graph = <<>>

C8_Witness ==
    /\ \E r \in Runs : mode = "shell" /\ req[r].log = Stages /\ Handled(r)
    /\ \E r \in Runs : req[r].log = << "geocode" >> /\ req[r].pc = "raised"

Count(l, x) ==
    Cardinality({ i \in DOMAIN l : l[i] = x })

\* C9: nothing is retried: within one run the geocoding provider and the
\* weather endpoint are each called at most once, a run that has failed
\* makes no further call, and a new run starts only when the user submits.
C9_NoRetry ==
    /\ [](\A r \in Runs :
            Count(req[r].log, "geocode") <= 1 /\ Count(req[r].log, "http") <= 1)
    /\ [][ \A r \in Runs :
              req[r].pc = "raised" => (req'[r].pc = "raised" /\ req'[r].log = req[r].log) ]_vars
    /\ [][ Len(req') # Len(req) => (PressSubmit \/ PressEnter) ]_vars

C9_Witness ==
    \E r1, r2 \in Runs :
        /\ ErrorKind(r1) = "HttpError" /\ Handled(r1)
        /\ r2 > r1 /\ Count(req[r2].log, "http") = 1

\* C10: every Forecast Result the validator produces has hourly timestamp
\* and temperature sequences of the same length.
C10_HourlySequencesSameLength ==
    \A r \in Runs :
        req[r].result # <<>> =>
            Len(req[r].result[1].hourly.time) = Len(req[r].result[1].hourly.temperature_2m)

\* The locations of the required fields of the three models.
RequiredPaths ==
    { <<f>> : f \in WeatherResultFields }
        \cup { <<"hourly", f>> : f \in HourlyDataFields }
        \cup { <<"hourly_units", f>> : f \in HourlyUnitsFields }

\* The payload data has the object in which the field at path lives, and
\* that object has no such member.
Lacks(data, path) ==
    IF Len(path) = 1
    THEN path[1] \notin DOMAIN data[2]
    ELSE /\ path[1] \in DOMAIN data[2]
         /\ data[2][path[1]][1] = "obj"
         /\ path[2] \notin DOMAIN data[2][path[1]][2]

\* C11: for every required field of WeatherResult, HourlyData and
\* HourlyUnits, a payload that lacks the field is rejected by the validator
\* with a ValidationError that names the field, and the run has no result.
C11_MissingFieldIsNamed ==
    \A r \in Runs : \A path \in RequiredPaths :
        ( /\ req[r].data # <<>>
          /\ Lacks(req[r].data[1], path)
          /\ req[r].pc # "validate" ) =>
            /\ req[r].pc = "raised"
            /\ ErrorKind(r) = "ValidationError"
            /\ path \in req[r].error[1].fields
            /\ req[r].result = <<>>
            /\ req[r].graph = <<>>

\* A run of the validator rejected a payload that lacks hourly.time.
C11_Witness ==
    \E r \in Runs :
        /\ ErrorKind(r) = "ValidationError"
        /\ req[r].error[1].fields = { <<"hourly", "time">> }
        /\ Lacks(req[r].data[1], <<"hourly", "time">>)

\* C12: for a result with n hourly entries (both sequences of length n)
\* and a location, the text display_weather_results writes contains the
\* location and exactly min(n, 24) hourly lines, the i-th of them pairing
\* the i-th timestamp, formatted, with the i-th temperature.
C12_TextHasFirstHours ==
    [][ \A r \in Runs :
           ( /\ req[r].worker = "display"
             /\ req'[r].worker = "done"
             /\ ~req[r].orphan
             /\ Len(req[r].result[1].hourly.time) = Len(req[r].result[1].hourly.temperature_2m) ) =>
               LET hourly == req[r].result[1].hourly
                   n == Len(hourly.time)
                   text == w'[1].results[1]
               IN  /\ text.location = req[r].location
                   /\ Len(text.lines) = IF n < 24 THEN n ELSE 24
                   /\ \A i \in DOMAIN text.lines :
                         /\ text.lines[i].time = <<"fmt", hourly.time[i][2]>>
                         /\ text.lines[i].temp = hourly.temperature_2m[i] ]_vars

\* The view shows the text of a result that has more than 24 hourly
\* entries.
C12_Witness ==
    \E r \in Runs :
        /\ Handled(r) /\ ~req[r].orphan /\ req[r].result # <<>>
        /\ Len(req[r].result[1].hourly.time) > 24
        /\ Len(req[r].result[1].hourly.temperature_2m) > 24
        /\ w # <<>> /\ w[1].results # <<>>
        /\ w[1].results[1].location = req[r].location
        /\ Len(w[1].results[1].lines) = 24

\* C13: the shell is a state machine over the three views main menu,
\* forecast-request and diagnostics: the active view is always one of
\* them; the forecast-request and the diagnostics view are entered only
\* from the main menu, by the matching option; Back and Escape in either
\* return to the main menu; and no step of a background task, its
\* completion or failure included, changes the active view.
C13_ThreeViews ==
    /\ [](mode = "shell" => view \in { "main", "weather", "debug" })
    /\ [][ mode = "shell" =>
             /\ (view = "main" /\ view' # "main") =>
                    \/ view' = "weather" /\ PressWeather
                    \/ view' = "debug" /\ PressDebug
             /\ (view = "weather" /\ view' # "weather") =>
                    (view' = "main" /\ (PressBack \/ PressEscape))
             /\ (view = "debug" /\ view' # "debug") =>
                    (view' = "main" /\ (DebugPressBack \/ DebugPressEscape))
             /\ (PressBack \/ PressEscape \/ DebugPressBack \/ DebugPressEscape) => view' = "main"
             /\ view' # view =>
                    ~((\E r \in Runs : RunStep(r)) \/ (\E c \in Checks : CheckStep(c))) ]_vars

\* The diagnostics view is active and has shown the outcome of a check,
\* after the forecast-request view was left with a request whose callback
\* has run since.
C13_Witness ==
    /\ view = "debug"
    /\ \E c \in Checks : chk[c].worker = "done" /\ ~chk[c].orphan
    /\ \E r \in Runs : req[r].worker = "done" /\ req[r].orphan

\* C14: a Forecast Result does not change once the validator has built
\* it: building the text in display_weather_results and passing the
\* sequences to show_graph, in the shell and in the script, leave every
\* field of the result as it was, the two hourly sequences included.
C14_ResultNeverChanges ==
    [][ \A r \in Runs :
           req[r].result # <<>> =>
               /\ req'[r].result = req[r].result
               /\ req'[r].result[1] = WeatherResult(req[r].data[1]) ]_vars

\* The shell has presented a result of more than 24 hourly entries, of
\* which the text and the chart got the first 24.
C14_Witness ==
    \E r \in Runs :
        /\ Handled(r) /\ ~req[r].orphan
        /\ req[r].graph # <<>>
        /\ req[r].result # <<>>
        /\ Len(req[r].result[1].hourly.time) > 24
        /\ Len(req[r].graph[1].times) = 24
        /\ w[1].results # <<>>
        /\ Len(w[1].results[1].lines) = 24

\* C15: when show_graph fails in display_weather_results, the callback
\* still returns normally; the results text it wrote stays in the results
\* area, the submit control is enabled, and the status is the warning
\* about the chart: apart from the status the widgets are what they are
\* when the chart is shown.
C15_ChartFailureIsAWarning ==
    [][ \A r \in Runs :
           ( /\ req[r].worker = "display"
             /\ req'[r].worker # "display"
             /\ req'[r].graph # <<>>
             /\ req'[r].graph[1].outcome = "raised" ) =>
               /\ req'[r].worker = "done"
               /\ ~req[r].orphan =>
                     /\ ~w'[1].disabled
                     /\ w'[1].text = "Submit"
                     /\ w'[1].results # <<>>
                     /\ w'[1].results[1].location = req[r].location
                     /\ Len(w'[1].results[1].lines) = Len(req'[r].graph[1].times)
                     /\ w'[1].status.text = "Graph display error: "
                     /\ w'[1].color = "yellow" ]_vars

\* The view shows the text of a result whose chart failed, under the
\* warning, with the submit control enabled.
C15_Witness ==
    \E r \in Runs :
        /\ Handled(r) /\ ~req[r].orphan
        /\ req[r].graph # <<>> /\ req[r].graph[1].outcome = "raised"
        /\ w # <<>>
        /\ w[1].color = "yellow"
        /\ w[1].results # <<>>
        /\ Len(w[1].results[1].lines) = 24
        /\ ~w[1].disabled

\* Nothing but white space, or nothing at all.
Blank(value) ==
    \A i \in DOMAIN value : value[i] = " "

\* C16: submitting an address that is empty or only white space starts no
\* request: no worker is created and no run of the pipeline, the submit
\* control and the results area stay as they are, and only the status
\* changes, to the error that asks for a location; so the geocoder is
\* never called with an address without a visible character.
C16_BlankAddressStartsNothing ==
    /\ [][ \A value \in InputValues :
               (Blank(value) /\ view = "weather" /\ submit_weather_request(value)) =>
                   /\ req' = req
                   /\ w'[1].disabled = w[1].disabled
                   /\ w'[1].text = w[1].text
                   /\ w'[1].results = w[1].results
                   /\ w'[1].status = Message("Please enter a location", <<>>)
                   /\ w'[1].color = "red" ]_vars
    /\ [](\A r \in Runs : ~Blank(req[r].location))
    /\ [][ Len(req') > Len(req) => ~Blank(req'[Len(req')].location) ]_vars

\* A blank address was submitted in a view that shows an earlier result:
\* the result is still there, the control is enabled, no request pends.
C16_Witness ==
    /\ w # <<>>
    /\ w[1].status = Message("Please enter a location", <<>>)
    /\ w[1].results # <<>>
    /\ ~w[1].disabled
    /\ \A r \in Runs : ~Pending(r)

\* The requests of the view on the stack.
OfView ==
    { r \in Runs : ~req[r].orphan }

\* The results area and the status show the outcome of run r; a blank
\* submission made since may have replaced the status by its own error.
Shows(r) ==
    /\ w[1].results =
          IF req[r].result # <<>>
          THEN << ResultsText(req[r].result[1], req[r].location) >>
          ELSE <<>>
    /\ \/ w[1].status = Message("Please enter a location", <<>>)
       \/ IF req[r].result # <<>>
          THEN w[1].color \in { "green", "yellow" }
          ELSE w[1].status = Message("Error: ", req[r].error)

\* C17: in the forecast-request view, once no request is pending, the
\* results area and the status show the outcome of the request submitted
\* last: the result or error of an earlier request has not replaced it.
C17_LatestOutcomeShown ==
    (mode = "shell" /\ w # <<>> /\ OfView # {} /\ \A r \in OfView : Handled(r)) =>
        Shows(CHOOSE r \in OfView : \A q \in OfView : q <= r)

\* A check of the view on the stack is in flight from the start of its
\* worker until its result or error has been handled.
InFlight(c) ==
    ~chk[c].orphan /\ chk[c].worker \in { "running", "display", "error" }

Other(cmd) ==
    IF cmd = "mypy" THEN "pydantic" ELSE "mypy"

\* C18: in the diagnostics view each of the two checks has at most one run
\* in flight, while the two may be in flight together: the button of a
\* check is disabled as long as a run of it is in flight, and handling
\* the result or error of a run enables the button of its own check and
\* leaves the button of the other check as it is.
C18_OneRunPerCheck ==
    /\ [](\A c1, c2 \in Checks :
            (c1 # c2 /\ InFlight(c1) /\ InFlight(c2)) => chk[c1].cmd # chk[c2].cmd)
    /\ [](\A c \in Checks : InFlight(c) => d[1][chk[c].cmd].disabled)
    /\ [][ \A c \in Checks :
               (InFlight(c) /\ chk'[c].worker = "done") =>
                   /\ ~d'[1][chk[c].cmd].disabled
                   /\ d'[1][Other(chk[c].cmd)] = d[1][Other(chk[c].cmd)] ]_vars
    /\ [][ \A c \in Checks :
               (InFlight(c) /\ d' # <<>> /\ ~d'[1][chk[c].cmd].disabled) =>
                   chk'[c].worker = "done" ]_vars

\* The result of one check has been handled while a run of the other
\* check, started before that, is still in flight: the first button is
\* enabled, the second disabled.
C18_Witness ==
    \E c1, c2 \in Checks :
        /\ c1 > c2
        /\ chk[c1].cmd # chk[c2].cmd
        /\ ~chk[c1].orphan /\ chk[c1].worker = "done"
        /\ InFlight(c2)
        /\ ~d[1][chk[c1].cmd].disabled
        /\ d[1][chk[c2].cmd].disabled

====








